---- MODULE Spec2Model ----
(***************************************************************************)
(* A model of the raton flight-deal bot: the check cycle of                *)
(* CheckOrchestrator.run_check_cycle (services/orchestrator.py), the       *)
(* search wrapper AmadeusClient.search_flights (services/amadeus.py), the  *)
(* offer mapper (models/mappers.py) and the rules engine                   *)
(* (services/rules.py).                                                    *)
(*                                                                         *)
(* The preference store, the Amadeus SDK and the Telegram bot are the      *)
(* environment: every call draws its outcome from a small set.  The        *)
(* variable `calls` is a history of the collaborator calls the cycle has   *)
(* made; the program does not read it.                                     *)
(*                                                                         *)
(* Spec is the check cycle.  RulesSpec calls the rules and evaluate_flight *)
(* on their own, MapperSpec the duration parser and the offer mapper: the  *)
(* variable `call` holds the function and its arguments, `frame` the       *)
(* call's progress and what it returned or raised.  SearchSpec calls       *)
(* search_flights on its own in the same way.                              *)
(*                                                                         *)
(* RunSpec is the scheduler loop of run() (main.py) around the check       *)
(* cycle: `run_pc` is the position of run(), `shutdown_event` its          *)
(* asyncio.Event, and `finished` a history of the cycles that have ended.  *)
(* RunFairSpec adds that the event loop keeps running what is runnable.    *)
(***************************************************************************)
EXTENDS Integers, Sequences, FiniteSets, TLC

\* ---------------------------------------------------------------- bounds
MaxUsers == 2
MaxRoutes == 2
MaxOffers == 2
\* segments of one itinerary of the offers the rules are called with
MaxSegments == 3
\* digits of one number of the duration texts the parser is called with
MaxDigits == 2
\* fee lines of the raw prices the mapper is called with
MaxFees == 2
\* check cycles that run() starts
MaxCycles == 2

\* ------------------------------------------------------------ base types
\* models/base.py: the enums, by their values (two of the four cabin classes)
CabinClass == {"economy", "business"}
TripType == {"one_way", "round_trip"}
StopPreference == {"any", "direct_only", "max_one_stop"}

\* Python's None, for an argument that is a date or None
None == 0

\* chat ids of the *.yaml files of the preferences directory, in the order
\* the directory listing yields them
AllChatIds == << 11111, 22222, 33333, 44444 >>

\* what list_users can return: the first n of them, n <= MaxUsers
ChatIdLists == { SubSeq(AllChatIds, 1, n) : n \in 0..MaxUsers }

\* ------------------------------------------------------ user preferences
AllRoutes ==
    << [origin |-> "JFK", destination |-> "LAX"],
       [origin |-> "JFK", destination |-> "SFO"],
       [origin |-> "EZE", destination |-> "MAD"],
       [origin |-> "EZE", destination |-> "FCO"] >>

\* routes: list[Route] = Field(min_length=1)
RouteLists == { SubSeq(AllRoutes, 1, n) : n \in 1..MaxRoutes }

\* The fields of UserPreferences; the date range is in days of March 2026,
\* earliest <= latest.  A Decimal is its exact number of hundredths:
\* max_price is Decimal("500.00").  The class declares no max_duration field,
\* so no preferences object carries that attribute.
UserPreferences ==
    { [routes |-> r, date_range |-> [earliest |-> 1, latest |-> 31],
       max_price |-> 50000, currency |-> "USD",
       passengers |-> IF t = "one_way" THEN 1 ELSE 9,
       cabin_class |-> IF Len(r) = 1 THEN "economy" ELSE "business",
       stop_preference |-> IF t = "one_way" THEN "any" ELSE "direct_only",
       trip_type |-> t]
      : r \in RouteLists, t \in TripType }

NoPrefs == [routes |-> << >>]

\* ---------------------------------------------------------- ISO durations
Digit == {"0", "1", "2", "3", "4", "5", "6", "7", "8", "9"}

DigitValue(ch) ==
    CASE ch = "0" -> 0 [] ch = "1" -> 1 [] ch = "2" -> 2 [] ch = "3" -> 3
      [] ch = "4" -> 4 [] ch = "5" -> 5 [] ch = "6" -> 6 [] ch = "7" -> 7
      [] ch = "8" -> 8 [] ch = "9" -> 9

\* first position >= i of s that holds no digit (Len(s)+1 when there is none)
RECURSIVE DigitsEnd(_, _)
DigitsEnd(s, i) ==
    IF i <= Len(s) /\ s[i] \in Digit THEN DigitsEnd(s, i + 1) ELSE i

\* int() of the digits s[i..j-1]
RECURSIVE IntOf(_, _, _)
IntOf(s, i, j) ==
    IF j <= i THEN 0 ELSE IntOf(s, i, j - 1) * 10 + DigitValue(s[j - 1])

\* one optional group (?:(\d+)X)? tried at position i: the position after it
\* and the captured number (absent: position unchanged, `or 0`)
Group(s, i, unit) ==
    LET j == DigitsEnd(s, i)
    IN  IF j > i /\ j <= Len(s) /\ s[j] = unit
        THEN [next |-> j + 1, value |-> IntOf(s, i, j)]
        ELSE [next |-> i, value |-> 0]

\* parse_iso8601_duration with int(match.group(n)) in place of
\* int(match.group(n) or 0): a group that is absent makes int(None) raise
parse_iso8601_durationNoDefault(s) ==
    IF ~(Len(s) >= 2 /\ s[1] = "P" /\ s[2] = "T")
    THEN [raised |-> "ValueError", value |-> 0]
    ELSE LET h == Group(s, 3, "H")
             m == Group(s, h.next, "M")
             sec == Group(s, m.next, "S")
             atEnd == \/ sec.next = Len(s) + 1
                      \/ sec.next = Len(s) /\ s[Len(s)] = "\n"
         IN  IF ~atEnd
             THEN [raised |-> "ValueError", value |-> 0]
             ELSE IF h.next = 3 \/ m.next = h.next \/ sec.next = m.next
             THEN [raised |-> "TypeError", value |-> 0]
             ELSE [raised |-> "none",
                   value |-> h.value * 3600 + m.value * 60 + sec.value]

\* parse_iso8601_duration: re ^PT(?:(\d+)H)?(?:(\d+)M)?(?:(\d+)S)?$ ; the
\* result is the timedelta in seconds, or a ValueError.  `$` of Python's re
\* also matches just before a final newline.
parse_iso8601_duration(s) ==
    IF ~(Len(s) >= 2 /\ s[1] = "P" /\ s[2] = "T")
    THEN [raised |-> "ValueError", value |-> 0]
    ELSE LET h == Group(s, 3, "H")
             m == Group(s, h.next, "M")
             sec == Group(s, m.next, "S")
             atEnd == \/ sec.next = Len(s) + 1
                      \/ sec.next = Len(s) /\ s[Len(s)] = "\n"
         IN  IF atEnd
             THEN [raised |-> "none",
                   value |-> h.value * 3600 + m.value * 60 + sec.value]
             ELSE [raised |-> "ValueError", value |-> 0]

\* ------------------------------------------------------------ raw offers
\* Amadeus flight-offer dicts, as response.data carries them.  Amounts are
\* decimal texts.
RawSegment(d) ==
    [departure |-> [iataCode |-> "JFK", at |-> "2026-03-15T10:30:00-05:00"],
     arrival |-> [iataCode |-> "LAX", at |-> "2026-03-15T13:45:00-08:00"],
     duration |-> d, carrierCode |-> "AA", number |-> "100"]

RawDirect ==
    [id |-> "1",
     itineraries |-> << [segments |-> << RawSegment(<<"P","T","5","H","3","0","M">>) >>] >>,
     price |-> [currency |-> "USD",
                total |-> << "4", "0", "0", ".", "0", "0" >>,
                base |-> << "3", "5", "0", ".", "0", "0" >>,
                fees |-> << [amount |-> << "3", "0", ".", "0", "0" >>],
                            [amount |-> << "2", "0", ".", "0", "0" >>] >>],
     validatingAirlineCodes |-> << "AA" >>]

RawExpensive ==
    [RawDirect EXCEPT !.id = "2", !.price.total = << "6", "0", "0", ".", "0", "0" >>]

\* a dict without the "price" key
RawNoPrice ==
    [id |-> "3",
     itineraries |-> RawDirect.itineraries,
     validatingAirlineCodes |-> << "AA" >>]

\* a segment whose duration lacks the PT prefix
RawBadDuration ==
    [RawDirect EXCEPT !.id = "4",
       !.itineraries = << [segments |-> << RawSegment(<<"5","H","3","0","M">>) >>] >>]

RawOffers == {RawDirect, RawExpensive, RawNoPrice, RawBadDuration}

\* response.data: a list of at most MaxOffers raw offers
RECURSIVE SeqsUpTo(_, _)
SeqsUpTo(S, n) ==
    IF n = 0 THEN { << >> }
    ELSE LET shorter == SeqsUpTo(S, n - 1)
         IN  shorter \cup { Append(q, x) : q \in {t \in shorter : Len(t) = n - 1}, x \in S }

ResponseData == SeqsUpTo(RawOffers, MaxOffers)

\* ---------------------------------------------------------------- mapper
NoOffer == [id |-> "none"]

\* the first entry of a list of exception names that is not "none"
RECURSIVE FirstRaised(_)
FirstRaised(errs) ==
    IF errs = << >> THEN "none"
    ELSE IF Head(errs) # "none" THEN Head(errs)
    ELSE FirstRaised(Tail(errs))

\* lines 92-121: what building one FlightSegment raises
\* (lines 94-95 read departure.at and arrival.at, line 98 the duration,
\* lines 109-120 the airport codes, the carrier code and the number)
SegmentRaised(seg) ==
    IF "departure" \notin DOMAIN seg \/ "arrival" \notin DOMAIN seg THEN "KeyError"
    ELSE IF "at" \notin DOMAIN seg.departure \/ "at" \notin DOMAIN seg.arrival THEN "KeyError"
    ELSE IF "duration" \notin DOMAIN seg THEN "KeyError"
    ELSE IF parse_iso8601_duration(seg.duration).raised # "none" THEN "ValueError"
    ELSE IF \/ "iataCode" \notin DOMAIN seg.departure
            \/ "iataCode" \notin DOMAIN seg.arrival
            \/ "carrierCode" \notin DOMAIN seg
            \/ "number" \notin DOMAIN seg
         THEN "KeyError"
    ELSE "none"

\* lines 90-124: what building one Itinerary raises
ItineraryRaised(itin) ==
    IF "segments" \notin DOMAIN itin THEN "KeyError"
    ELSE LET r == FirstRaised([i \in 1..Len(itin.segments) |-> SegmentRaised(itin.segments[i])])
         IN  IF r # "none" THEN r
             ELSE IF Len(itin.segments) = 0 THEN "ValidationError"
             ELSE "none"

RECURSIVE SumSeq(_)
SumSeq(q) == IF q = << >> THEN 0 ELSE Head(q) + SumSeq(Tail(q))

\* Decimal(text) for a text of digits with at most one point and at most two
\* decimals: the exact value, in hundredths; any other text of digits, points
\* and letters is an InvalidOperation
Decimal(text) ==
    LET points == { i \in 1..Len(text) : text[i] = "." }
        point == IF points = {} THEN Len(text) + 1 ELSE CHOOSE i \in points : TRUE
        decimals == Len(text) - point
    IN  IF \/ Cardinality(points) > 1
           \/ \E i \in 1..Len(text) : text[i] \notin Digit \cup {"."}
           \/ Len(text) - Cardinality(points) = 0
        THEN [raised |-> "InvalidOperation", value |-> 0]
        ELSE [raised |-> "none",
              value |-> IntOf(text, 1, point) * 100
                          + IntOf(text, point + 1, Len(text) + 1)
                              * (CASE decimals <= 0 -> 0
                                   [] decimals = 1 -> 10
                                   [] decimals = 2 -> 1)]

\* Decimal(d[key]): the KeyError of a missing key, else what Decimal does
DecimalAt(d, key) ==
    IF key \notin DOMAIN d THEN [raised |-> "KeyError", value |-> 0]
    ELSE Decimal(d[key])

\* amadeus_price.get("fees", [])
FeeLines(amadeus_price) ==
    IF "fees" \in DOMAIN amadeus_price THEN amadeus_price.fees ELSE << >>

\* TotalFees with total_fees = in place of total_fees +=
TotalFeesLastOnly(amadeus_price) ==
    LET fees == FeeLines(amadeus_price)
    IN  IF fees = << >> THEN 0 ELSE DecimalAt(fees[Len(fees)], "amount").value

\* lines 130-132: total_fees, from Decimal("0"), += Decimal(fee["amount"])
TotalFees(amadeus_price) ==
    LET fees == FeeLines(amadeus_price)
    IN  SumSeq([i \in 1..Len(fees) |-> DecimalAt(fees[i], "amount").value])

\* lines 130-139: what converting the price raises: the fee lines in order,
\* then total, currency and base
PriceRaised(amadeus_price) ==
    LET fees == FeeLines(amadeus_price)
    IN  FirstRaised([i \in 1..Len(fees) |-> DecimalAt(fees[i], "amount").raised]
                    \o << DecimalAt(amadeus_price, "total").raised,
                          IF "currency" \in DOMAIN amadeus_price THEN "none" ELSE "KeyError",
                          DecimalAt(amadeus_price, "base").raised >>)

\* amadeus_to_flight_offer: the FlightOffer, or the exception it raises
amadeus_to_flight_offer(amadeus_data) ==
    LET Raise(e) == [raised |-> e, offer |-> NoOffer]
    IN
    IF "itineraries" \notin DOMAIN amadeus_data THEN Raise("KeyError")
    ELSE LET its == amadeus_data.itineraries
             r == FirstRaised([i \in 1..Len(its) |-> ItineraryRaised(its[i])])
         IN
         IF r # "none" THEN Raise(r)
         ELSE IF "price" \notin DOMAIN amadeus_data THEN Raise("KeyError")
         ELSE IF PriceRaised(amadeus_data.price) # "none"
              THEN Raise(PriceRaised(amadeus_data.price))
         ELSE IF "validatingAirlineCodes" \notin DOMAIN amadeus_data THEN Raise("KeyError")
         ELSE IF amadeus_data.validatingAirlineCodes = << >> THEN Raise("IndexError")
         ELSE IF "id" \notin DOMAIN amadeus_data THEN Raise("KeyError")
         ELSE IF Len(its) = 0 THEN Raise("ValidationError")
         ELSE [raised |-> "none",
               offer |->
                 [id |-> amadeus_data.id,
                  itineraries |->
                    [i \in 1..Len(its) |->
                       [segments |->
                          [k \in 1..Len(its[i].segments) |->
                             [duration |->
                                parse_iso8601_duration(its[i].segments[k].duration).value]]]],
                  price |->
                    [total |-> Decimal(amadeus_data.price.total).value,
                     currency |-> amadeus_data.price.currency,
                     base |-> Decimal(amadeus_data.price.base).value,
                     fees |-> TotalFees(amadeus_data.price)],
                  validating_airline |-> amadeus_data.validatingAirlineCodes[1]]]

\* ------------------------------------------------------- flight properties
\* Itinerary.stops
stops(itinerary) == Len(itinerary.segments) - 1

\* total_stops as the most stops of one direction
total_stopsPerDirection(flight) ==
    LET each == { stops(flight.itineraries[i]) : i \in 1..Len(flight.itineraries) }
    IN  CHOOSE m \in each : \A x \in each : x <= m

\* FlightOffer.total_stops
total_stops(flight) ==
    SumSeq([i \in 1..Len(flight.itineraries) |-> stops(flight.itineraries[i])])

\* FlightOffer.total_duration (over Itinerary.total_duration)
total_duration(flight) ==
    SumSeq([i \in 1..Len(flight.itineraries) |->
              SumSeq([k \in 1..Len(flight.itineraries[i].segments) |->
                        flight.itineraries[i].segments[k].duration])])

\* ----------------------------------------------------------------- rules
\* A rule returns (passed, reason), or raises.
RuleResult(p, text) == [raised |-> "none", passed |-> p, reason |-> text]

check_currency(flight, prefs) ==
    IF flight.price.currency = prefs.currency
    THEN RuleResult(TRUE, "Currency matches")
    ELSE RuleResult(FALSE, "Currency mismatch")

\* check_price with < in place of <=
check_priceStrict(flight, prefs) ==
    IF flight.price.total < prefs.max_price
    THEN RuleResult(TRUE, "Price is within budget")
    ELSE RuleResult(FALSE, "Price exceeds max")

check_price(flight, prefs) ==
    IF flight.price.total <= prefs.max_price
    THEN RuleResult(TRUE, "Price is within budget")
    ELSE RuleResult(FALSE, "Price exceeds max")

\* check_stops with total_stops < 1 in the MAX_ONE_STOP case
check_stopsBelowOne(flight, prefs) ==
    CASE prefs.stop_preference = "any" -> RuleResult(TRUE, "Any stops allowed")
      [] prefs.stop_preference = "direct_only" ->
           IF total_stops(flight) = 0
           THEN RuleResult(TRUE, "Direct flight as required")
           ELSE RuleResult(FALSE, "direct only required")
      [] prefs.stop_preference = "max_one_stop" ->
           IF total_stops(flight) < 1
           THEN RuleResult(TRUE, "max 1 allowed")
           ELSE RuleResult(FALSE, "but max 1 allowed")

check_stops(flight, prefs) ==
    CASE prefs.stop_preference = "any" -> RuleResult(TRUE, "Any stops allowed")
      [] prefs.stop_preference = "direct_only" ->
           IF total_stops(flight) = 0
           THEN RuleResult(TRUE, "Direct flight as required")
           ELSE RuleResult(FALSE, "direct only required")
      [] prefs.stop_preference = "max_one_stop" ->
           IF total_stops(flight) <= 1
           THEN RuleResult(TRUE, "max 1 allowed")
           ELSE RuleResult(FALSE, "but max 1 allowed")

\* prefs.max_duration is read first; an object without that attribute makes
\* the read raise AttributeError, and UserPreferences declares no such field.
check_duration(flight, prefs) ==
    IF "max_duration" \notin DOMAIN prefs
    THEN [raised |-> "AttributeError", passed |-> FALSE, reason |-> ""]
    ELSE IF prefs.max_duration = None
    THEN RuleResult(TRUE, "No duration limit specified")
    ELSE IF total_duration(flight) <= prefs.max_duration
    THEN RuleResult(TRUE, "Duration is within limit")
    ELSE RuleResult(FALSE, "Duration exceeds max")

\* evaluate_flight: the four rules in order; a rule that raises ends it.
evaluate_flight(flight, prefs) ==
    LET rules == << check_currency(flight, prefs), check_price(flight, prefs),
                    check_stops(flight, prefs), check_duration(flight, prefs) >>
        raisedBy == FirstRaised([i \in 1..4 |-> rules[i].raised])
        passed == SelectSeq(rules, LAMBDA r : r.passed)
        failed == SelectSeq(rules, LAMBDA r : ~r.passed)
    IN  IF raisedBy # "none"
        THEN [raised |-> raisedBy, is_match |-> FALSE,
              passed_reasons |-> << >>, failed_reasons |-> << >>]
        ELSE [raised |-> "none", is_match |-> Len(failed) = 0,
              passed_reasons |-> [i \in 1..Len(passed) |-> passed[i].reason],
              failed_reasons |-> [i \in 1..Len(failed) |-> failed[i].reason]]

\* ------------------------------------------------------------ exceptions
\* services/exceptions.py: the three hierarchies the orchestrator catches
AmadeusError ==
    {"AmadeusAuthError", "AmadeusRateLimitError", "AmadeusNetworkError", "AmadeusApiError"}
PreferencesError == {"PreferencesNotFoundError", "PreferencesStorageError"}
TelegramError ==
    {"TelegramAuthError", "TelegramChatNotFoundError", "TelegramDeliveryError",
     "TelegramNetworkError"}

\* -------------------------------------------------------- search_flights
\* what the SDK call of lines 139-142 does: raise, or return response.data
SdkOutcomes ==
    { [kind |-> "NetworkError", status |-> 0, data |-> << >>],
      [kind |-> "Exception", status |-> 0, data |-> << >>] }
    \cup { [kind |-> "ResponseError", status |-> st, data |-> << >>] : st \in {401, 403, 429, 500} }
    \cup { [kind |-> "response", status |-> 200, data |-> d] : d \in ResponseData }

\* date.isoformat()
isoformat(d) == << "2026-03", d >>

\* CabinClass.value.upper()
upper(c) == IF c = "economy" THEN "ECONOMY" ELSE "BUSINESS"

\* lines 121-136: the keyword parameters of the SDK call; returnDate and
\* travelClass are set only for a truthy argument ("" is the cabin class None)
SearchParams(origin, destination, departure_date, adults, return_date, cabin_class) ==
    [originLocationCode |-> origin, destinationLocationCode |-> destination,
     departureDate |-> isoformat(departure_date), adults |-> adults, max |-> 10]
    @@ (IF return_date # None THEN [returnDate |-> isoformat(return_date)] ELSE << >>)
    @@ (IF cabin_class # "" THEN [travelClass |-> upper(cabin_class)] ELSE << >>)

\* lines 143-158: the exception the except clause raises for an SDK failure
TranslateSdkError(sdk) ==
    IF sdk.kind = "NetworkError" THEN "AmadeusNetworkError"
    ELSE IF sdk.kind = "ResponseError"
    THEN IF sdk.status \in {401, 403} THEN "AmadeusAuthError"
         ELSE IF sdk.status = 429 THEN "AmadeusRateLimitError"
         ELSE "AmadeusApiError"
    ELSE sdk.kind

\* line 160: the list comprehension maps every raw offer, outside the try;
\* the first offer that fails to map ends the call with its exception
MapAll(data) ==
    LET mapped == [i \in 1..Len(data) |-> amadeus_to_flight_offer(data[i])]
    IN  [raised |-> FirstRaised([i \in 1..Len(data) |-> mapped[i].raised]),
         flights |-> [i \in 1..Len(data) |-> mapped[i].offer]]

\* search_flights: the flights it returns, or the exception that leaves it
search_flights(sdk) ==
    IF sdk.kind # "response"
    THEN [raised |-> TranslateSdkError(sdk), flights |-> << >>]
    ELSE LET m == MapAll(sdk.data)
         IN  IF m.raised # "none" THEN [raised |-> m.raised, flights |-> << >>]
             ELSE m

\* ------------------------------------------------------ the environment
\* list_users: the chat ids of the *.yaml files, or an OSError turned into
\* PreferencesStorageError
ListUsersOutcomes ==
    { [raised |-> "PreferencesStorageError", ids |-> << >>] }
    \cup { [raised |-> "none", ids |-> q] : q \in ChatIdLists }

\* load: not found, a storage error (corrupt YAML, invalid data, OSError),
\* a file that is not valid UTF-8 (no handler for UnicodeDecodeError), or
\* the validated preferences
LoadOutcomes ==
    { [raised |-> e, prefs |-> NoPrefs]
        : e \in PreferencesError \cup {"UnicodeDecodeError"} }
    \cup { [raised |-> "none", prefs |-> p] : p \in UserPreferences }

\* send_flight_deal: delivered, or one of the Telegram errors
DeliveryOutcomes == {"none"} \cup TelegramError

\* ------------------------------------------------------------------ state
VARIABLES
    pc,                  \* "start", "load", "search", "offer", "done", "raised"
    chat_ids, user_idx,  \* the for loop of line 106
    prefs, route_idx,    \* the for loop of line 117
    flights, flight_idx, \* the for loop of line 145
    users_checked, routes_searched, flights_found,
    deals_matched, notifications_sent, errors,
    result,              \* the CheckResult returned
    raised,              \* the exception that left run_check_cycle
    calls,               \* history of the collaborator calls
    call,                \* a call of one function on its own: the function and its arguments
    frame,               \* that call's progress: its locals, then what it returned or raised
    shutdown_event,      \* main.py:25: whether the asyncio.Event is set
    run_pc,              \* where run() is: "test", "cycle", "wait", "exited"; "none": not running
    finished             \* history of the cycles that have ended

counters ==
    << users_checked, routes_searched, flights_found,
       deals_matched, notifications_sent, errors >>
loops == << chat_ids, user_idx, prefs, route_idx, flights, flight_idx >>
cycle == << pc, loops, counters, result, raised, calls >>
sched == << shutdown_event, run_pc, finished >>
vars == << cycle, call, frame, sched >>

NoResult == [returned |-> FALSE]

\* no function is being called on its own
NoCall == [fn |-> "none"]
NoFrame == [pc |-> "none"]

\* results.py: CheckResult
CheckResult(uc, rs, ff, dm, ns, er) ==
    [users_checked |-> uc, routes_searched |-> rs, flights_found |-> ff,
     deals_matched |-> dm, notifications_sent |-> ns, errors |-> er]

\* lines 84-89: the cycle before its first step
CycleInit ==
    /\ pc = "start"
    /\ chat_ids = << >> /\ user_idx = 0
    /\ prefs = NoPrefs /\ route_idx = 0
    /\ flights = << >> /\ flight_idx = 0
    /\ users_checked = 0 /\ routes_searched = 0 /\ flights_found = 0
    /\ deals_matched = 0 /\ notifications_sent = 0 /\ errors = 0
    /\ result = NoResult
    /\ raised = "none"
    /\ calls = << >>

\* run() is not on the stack: the function under study is called directly
NotRunning ==
    /\ shutdown_event = FALSE
    /\ run_pc = "none"
    /\ finished = << >>

Init ==
    /\ CycleInit
    /\ call = NoCall
    /\ frame = NoFrame
    /\ NotRunning

\* ----------------------------------------------------------- control flow
\* lines 165-175: build the CheckResult from the counters and return it
Return ==
    /\ pc' = "done"
    /\ result' = CheckResult(users_checked', routes_searched', flights_found',
                             deals_matched', notifications_sent', errors')

\* an exception no except clause of run_check_cycle matches leaves the method
Propagate(e) ==
    /\ pc' = "raised"
    /\ raised' = e
    /\ UNCHANGED << result, user_idx, route_idx, flight_idx >>

\* line 106: the next chat id, or the end of the loop
NextUser ==
    /\ UNCHANGED << route_idx, flight_idx, raised >>
    /\ IF user_idx < Len(chat_ids)
       THEN pc' = "load" /\ user_idx' = user_idx + 1 /\ result' = result
       ELSE user_idx' = user_idx /\ Return

\* NextRoute with the loop of line 117 ended one route early
NextRouteSkipsLast ==
    IF route_idx + 1 < Len(prefs.routes)
    THEN /\ pc' = "search"
         /\ route_idx' = route_idx + 1
         /\ UNCHANGED << user_idx, flight_idx, result, raised >>
    ELSE NextUser

\* line 117: the next route of the user, or the next user
NextRoute ==
    IF route_idx < Len(prefs.routes)
    THEN /\ pc' = "search"
         /\ route_idx' = route_idx + 1
         /\ UNCHANGED << user_idx, flight_idx, result, raised >>
    ELSE NextUser

\* line 145: the next flight of the route, or the next route
NextFlight ==
    IF flight_idx < Len(flights)
    THEN /\ pc' = "offer"
         /\ flight_idx' = flight_idx + 1
         /\ UNCHANGED << user_idx, route_idx, result, raised >>
    ELSE NextRoute

\* ---------------------------------------------------------------- actions
\* lines 95-102: the CheckResult of a cycle that found no users
EmptyResultWithError == CheckResult(0, 0, 0, 0, 0, 1)
EmptyResult == CheckResult(0, 0, 0, 0, 0, 0)

\* ListUsers with the loop of line 106 begun at the last chat id
ListUsersFromLast ==
    /\ pc = "start"
    /\ UNCHANGED << call, frame, sched >>
    /\ \E out \in ListUsersOutcomes :
         /\ calls' = Append(calls, [op |-> "list_users", outcome |->
                                      IF out.raised = "none" THEN "returned" ELSE "propagated",
                                    returned |-> out.ids])
         /\ UNCHANGED << counters, prefs, flights >>
         /\ IF out.raised # "none"
            THEN chat_ids' = chat_ids /\ Propagate(out.raised)
            ELSE /\ chat_ids' = out.ids
                 /\ UNCHANGED << route_idx, flight_idx, raised >>
                 /\ IF out.ids = << >>
                    THEN /\ pc' = "done"
                         /\ result' = EmptyResult
                         /\ user_idx' = user_idx
                    ELSE /\ pc' = "load"
                         /\ user_idx' = Len(out.ids)
                         /\ result' = result

\* lines 91-104: list the users; an empty list returns at once
ListUsers ==
    /\ pc = "start"
    /\ UNCHANGED << call, frame, sched >>
    /\ \E out \in ListUsersOutcomes :
         /\ calls' = Append(calls, [op |-> "list_users", outcome |->
                                      IF out.raised = "none" THEN "returned" ELSE "propagated",
                                    returned |-> out.ids])
         /\ UNCHANGED << counters, prefs, flights >>
         /\ IF out.raised # "none"
            THEN chat_ids' = chat_ids /\ Propagate(out.raised)
            ELSE /\ chat_ids' = out.ids
                 /\ UNCHANGED << route_idx, flight_idx, raised >>
                 /\ IF out.ids = << >>
                    THEN /\ pc' = "done"
                         /\ result' = EmptyResult
                         /\ user_idx' = user_idx
                    ELSE /\ pc' = "load"
                         /\ user_idx' = 1
                         /\ result' = result

\* OnPreferencesError with users_checked += 1 moved above the try
OnPreferencesErrorCountsUser ==
    /\ errors' = errors + 1
    /\ users_checked' = users_checked + 1
    /\ UNCHANGED << routes_searched, flights_found, deals_matched, notifications_sent >>
    /\ UNCHANGED prefs
    /\ NextUser

\* lines 109-112: except PreferencesError: errors += 1; continue
OnPreferencesError ==
    /\ errors' = errors + 1
    /\ UNCHANGED << users_checked, routes_searched, flights_found,
                    deals_matched, notifications_sent >>
    /\ UNCHANGED prefs
    /\ NextUser

\* lines 107-115: load the preferences of chat_ids[user_idx]
LoadPreferences ==
    /\ pc = "load"
    /\ UNCHANGED << call, frame, sched >>
    /\ \E out \in LoadOutcomes :
         /\ calls' = Append(calls, [op |-> "load", user |-> user_idx,
                                    chat_id |-> chat_ids[user_idx],
                                    outcome |->
                                      IF out.raised = "none" THEN "returned"
                                      ELSE IF out.raised \in PreferencesError
                                      THEN "PreferencesError" ELSE "propagated",
                                    returned |-> out.prefs])
         /\ UNCHANGED << chat_ids, flights >>
         /\ IF out.raised \in PreferencesError
            THEN OnPreferencesError
            ELSE IF out.raised # "none"
            THEN UNCHANGED << counters, prefs >> /\ Propagate(out.raised)
            ELSE /\ users_checked' = users_checked + 1
                 /\ UNCHANGED << routes_searched, flights_found, deals_matched,
                                 notifications_sent, errors >>
                 /\ prefs' = out.prefs
                 /\ pc' = "search"
                 /\ route_idx' = 1
                 /\ UNCHANGED << user_idx, flight_idx, result, raised >>

\* ReturnDate without the trip_type test
ReturnDateAlways(p) == p.date_range.latest

\* lines 125-129: the return_date argument
ReturnDate(p) ==
    IF p.trip_type = "round_trip" THEN p.date_range.latest ELSE None

\* lines 121-132: the arguments of the search_flights call for a route
SearchArgs(route, p) ==
    [origin |-> route.origin, destination |-> route.destination,
     departure_date |-> p.date_range.earliest, return_date |-> ReturnDate(p),
     adults |-> p.passengers, cabin_class |-> p.cabin_class]

\* OnAmadeusError with break in place of continue
OnAmadeusErrorBreaks ==
    /\ errors' = errors + 1
    /\ UNCHANGED << users_checked, flights_found, deals_matched, notifications_sent >>
    /\ UNCHANGED flights
    /\ NextUser

\* OnAmadeusError without errors += 1
OnAmadeusErrorUncounted ==
    /\ errors' = errors
    /\ UNCHANGED << users_checked, flights_found, deals_matched, notifications_sent >>
    /\ UNCHANGED flights
    /\ NextRoute

\* lines 133-138: except AmadeusError: errors += 1; continue
OnAmadeusError ==
    /\ errors' = errors + 1
    /\ UNCHANGED << users_checked, flights_found, deals_matched, notifications_sent >>
    /\ UNCHANGED flights
    /\ NextRoute

\* CountFlights adding one per successful search
CountSearches(found, fl) == found + 1

\* CountFlights with -= in place of +=
CountFlightsDown(found, fl) == found - Len(fl)

\* line 140: flights_found += len(flights)
CountFlights(found, fl) == found + Len(fl)

\* the raw offers of a response that the mapper rejects
Malformed(data) ==
    { k \in 1..Len(data) : amadeus_to_flight_offer(data[k]).raised # "none" }

\* every outcome of a search_flights call: what the SDK did, what the call
\* returned or raised, and how many raw offers the mapper rejects
SearchOutcomes ==
    { [sdk |-> o, r |-> search_flights(o), rejected |-> Cardinality(Malformed(o.data))]
        : o \in SdkOutcomes }

\* the history entry of a search_flights call: the arguments, the number of
\* raw offers of the response and how many of them the mapper rejects
SearchCall(args, out) ==
    [op |-> "search_flights", user |-> user_idx, route |-> route_idx,
     args |-> args,
     params |-> SearchParams(args.origin, args.destination, args.departure_date,
                             args.adults, args.return_date, args.cabin_class),
     offered |-> Len(out.sdk.data),
     rejected |-> out.rejected,
     outcome |-> IF out.r.raised = "none" THEN "returned"
                 ELSE IF out.r.raised \in AmadeusError THEN "AmadeusError"
                 ELSE "propagated",
     returned |-> Len(out.r.flights)]

\* lines 118-143: search one route
SearchRoute ==
    /\ pc = "search"
    /\ UNCHANGED << call, frame, sched >>
    /\ \E out \in SearchOutcomes :
         /\ calls' = Append(calls, SearchCall(SearchArgs(prefs.routes[route_idx], prefs), out))
         /\ routes_searched' = routes_searched + 1
         /\ UNCHANGED << chat_ids, prefs >>
         /\ IF out.r.raised \in AmadeusError
            THEN OnAmadeusError
            ELSE IF out.r.raised # "none"
            THEN /\ UNCHANGED << users_checked, flights_found, deals_matched,
                                 notifications_sent, errors, flights >>
                 /\ Propagate(out.r.raised)
            ELSE /\ flights_found' = CountFlights(flights_found, out.r.flights)
                 /\ UNCHANGED << users_checked, deals_matched,
                                 notifications_sent, errors >>
                 /\ flights' = out.r.flights
                 /\ IF out.r.flights = << >>
                    THEN NextRoute
                    ELSE /\ pc' = "offer"
                         /\ flight_idx' = 1
                         /\ UNCHANGED << user_idx, route_idx, result, raised >>

\* lines 154-163: send the deal; a TelegramError is counted, not raised
SendDeal(flight) ==
    \E d \in DeliveryOutcomes :
      /\ calls' = Append(calls, [op |-> "send_flight_deal", user |-> user_idx,
                                 chat_id |-> chat_ids[user_idx], flight |-> flight.id,
                                 outcome |-> IF d = "none" THEN "returned" ELSE "TelegramError"])
      /\ IF d = "none"
         THEN notifications_sent' = notifications_sent + 1 /\ errors' = errors
         ELSE notifications_sent' = notifications_sent /\ errors' = errors + 1

\* lines 145-163: evaluate one flight and notify the user of a match
ProcessFlight ==
    /\ pc = "offer"
    /\ UNCHANGED << call, frame, sched >>
    /\ LET flight == flights[flight_idx]
           match_result == evaluate_flight(flight, prefs)
       IN  /\ UNCHANGED << chat_ids, prefs, flights >>
           /\ UNCHANGED << users_checked, routes_searched, flights_found >>
           /\ IF match_result.raised # "none"
              THEN /\ UNCHANGED << deals_matched, notifications_sent, errors, calls >>
                   /\ Propagate(match_result.raised)
              ELSE IF match_result.is_match
              THEN /\ deals_matched' = deals_matched + 1
                   /\ SendDeal(flight)
                   /\ NextFlight
              ELSE /\ UNCHANGED << deals_matched, notifications_sent, errors, calls >>
                   /\ NextFlight

Next == ListUsers \/ LoadPreferences \/ SearchRoute \/ ProcessFlight

Spec == Init /\ [][Next]_vars

\* ------------------------------------------- the rules, called directly
\* FlightOffer objects: one or two itineraries of 1..MaxSegments segments of
\* two hours each, priced around the max_price of the preferences (499.00,
\* 499.99, 500.00, 500.01 and 501.00)
RuleFlight(cur, total, shape) ==
    [id |-> "offer-1",
     itineraries |->
       [i \in 1..Len(shape) |-> [segments |-> [k \in 1..shape[i] |-> [duration |-> 7200]]]],
     price |-> [total |-> total, currency |-> cur, base |-> 35000, fees |-> 5000],
     validating_airline |-> "AA"]

RuleFlights ==
    { RuleFlight(cur, total, shape) :
        cur \in {"USD", "EUR"}, total \in {49900, 49999, 50000, 50001, 50100},
        shape \in { << n >> : n \in 1..MaxSegments }
                  \cup { << n, m >> : n \in 1..MaxSegments, m \in 1..MaxSegments } }

\* UserPreferences objects with every stop preference
RulePreferences ==
    { [p EXCEPT !.stop_preference = sp] : p \in UserPreferences, sp \in StopPreference }

\* rules.py line 148: the rules, in the order the loop runs them
rules == << "check_currency", "check_price", "check_stops", "check_duration" >>

\* line 154: rule(flight, prefs)
ApplyRule(rule, flight, p) ==
    CASE rule = "check_currency" -> check_currency(flight, p)
      [] rule = "check_price" -> check_price(flight, p)
      [] rule = "check_stops" -> check_stops(flight, p)
      [] rule = "check_duration" -> check_duration(flight, p)

\* lines 16-42: the frozen dataclass
MatchResult(is_match, passed_reasons, failed_reasons) ==
    [is_match |-> is_match, passed_reasons |-> passed_reasons,
     failed_reasons |-> failed_reasons]

\* the frame of a call that has been entered; for evaluate_flight, lines
\* 148-151: the next rule and the two lists (invoked: the rules called so far)
EntryFrame(fn) ==
    IF fn = "evaluate_flight"
    THEN [pc |-> "loop", rule |-> 1, passed |-> << >>, failed |-> << >>, invoked |-> << >>]
    ELSE [pc |-> "called"]

RulesInit ==
    /\ CycleInit
    /\ NotRunning
    /\ \E fn \in {"check_price", "check_stops", "check_duration", "evaluate_flight"},
          fl \in RuleFlights, p \in RulePreferences :
         /\ call = [fn |-> fn, flight |-> fl, prefs |-> p]
         /\ frame = EntryFrame(fn)

\* the frame of a rule called on its own: (passed, reason), or the exception
RuleFrame(r) ==
    IF r.raised # "none"
    THEN [pc |-> "raised", raised |-> r.raised]
    ELSE [pc |-> "returned", passed |-> r.passed, reason |-> r.reason]

\* check_price(flight, prefs)
CheckPrice ==
    /\ call.fn = "check_price"
    /\ frame.pc = "called"
    /\ frame' = RuleFrame(check_price(call.flight, call.prefs))
    /\ UNCHANGED << cycle, call, sched >>

\* check_stops(flight, prefs)
CheckStops ==
    /\ call.fn = "check_stops"
    /\ frame.pc = "called"
    /\ frame' = RuleFrame(check_stops(call.flight, call.prefs))
    /\ UNCHANGED << cycle, call, sched >>

\* check_duration(flight, prefs)
CheckDuration ==
    /\ call.fn = "check_duration"
    /\ frame.pc = "called"
    /\ frame' = RuleFrame(check_duration(call.flight, call.prefs))
    /\ UNCHANGED << cycle, call, sched >>

\* lines 153-164: one iteration of `for rule in rules`; the last one goes on
\* to build and return the MatchResult; a rule that raises ends the call
RunRule ==
    /\ call.fn = "evaluate_flight"
    /\ frame.pc = "loop"
    /\ LET rule == rules[frame.rule]
           r == ApplyRule(rule, call.flight, call.prefs)
           invoked == Append(frame.invoked, rule)
           passed == IF r.passed THEN Append(frame.passed, r.reason) ELSE frame.passed
           failed == IF r.passed THEN frame.failed ELSE Append(frame.failed, r.reason)
       IN  frame' =
             IF r.raised # "none"
             THEN [pc |-> "raised", raised |-> r.raised, invoked |-> invoked]
             ELSE IF frame.rule < Len(rules)
             THEN [pc |-> "loop", rule |-> frame.rule + 1, passed |-> passed,
                   failed |-> failed, invoked |-> invoked]
             ELSE [pc |-> "returned", invoked |-> invoked,
                   result |-> MatchResult(Len(failed) = 0, passed, failed)]
    /\ UNCHANGED << cycle, call, sched >>

RulesNext == CheckPrice \/ CheckStops \/ CheckDuration \/ RunRule

RulesSpec == RulesInit /\ [][RulesNext]_vars

\* ------------------------------------------ the mapper, called directly
\* Duration texts are put together from a prefix, up to three groups (what
\* stands before the unit letter, and the letter) and a suffix.
Units == << "H", "M", "S" >>

\* numbers of 1..MaxDigits digits, written with 0 and 7
Numbers == SeqsUpTo({"0", "7"}, MaxDigits) \ { << >> }

\* before a unit letter: a number, nothing, a fraction, a letter
GroupBodies == Numbers \cup { << >>, << "1", ".", "5" >>, << "x" >> }

GroupLists ==
    SeqsUpTo({ [body |-> b, unit |-> Units[u]] : b \in GroupBodies, u \in 1..Len(Units) },
             Len(Units))

\* prefix and suffix: the plain "PT"; no prefix; "P" alone; text before the
\* prefix; text, a space or a newline after the groups
PlainPT == [pre |-> << "P", "T" >>, post |-> << >>]

Wrappings ==
    { PlainPT,
      [pre |-> << >>, post |-> << >>],
      [pre |-> << "P" >>, post |-> << >>],
      [pre |-> << "x", "P", "T" >>, post |-> << >>],
      [pre |-> << "P", "T" >>, post |-> << "x" >>],
      [pre |-> << "P", "T" >>, post |-> << " " >>],
      [pre |-> << "P", "T" >>, post |-> << "\n" >>] }

RECURSIVE GroupsText(_)
GroupsText(groups) ==
    IF groups = << >> THEN << >>
    ELSE Head(groups).body \o << Head(groups).unit >> \o GroupsText(Tail(groups))

DurationText(wrapping, groups) == wrapping.pre \o GroupsText(groups) \o wrapping.post

\* amounts as Amadeus writes them, each with its value in hundredths
Amounts ==
    { [text |-> << "3", "0", ".", "0", "0" >>, hundredths |-> 3000],
      [text |-> << "1", "9", ".", "9", "9" >>, hundredths |-> 1999],
      [text |-> << "0", ".", "0", "5" >>, hundredths |-> 5],
      [text |-> << "0", ".", "1" >>, hundredths |-> 10],
      [text |-> << "0", ".", "2" >>, hundredths |-> 20],
      [text |-> << "7" >>, hundredths |-> 700] }

\* a raw price: total, base, and the "fees" key absent or a list of at most
\* MaxFees fee lines
RawPrices ==
    { [total |-> t, base |-> b, has_fees |-> k, fees |-> f] :
        t \in Amounts, b \in Amounts, k \in BOOLEAN, f \in SeqsUpTo(Amounts, MaxFees) }

\* the offer dict with that price
RawPriced(rp) ==
    [RawDirect EXCEPT !.price =
       [currency |-> "USD", total |-> rp.total.text, base |-> rp.base.text]
       @@ (IF rp.has_fees
           THEN [fees |-> [i \in 1..Len(rp.fees) |->
                             [amount |-> rp.fees[i].text, type |-> "SUPPLIER"]]]
           ELSE << >>)]

\* a dict without one of its keys
Without(d, key) == [k \in DOMAIN d \ {key} |-> d[k]]

\* the fields the mapper reads with d[key], and the first validating airline
RequiredFields ==
    {"itineraries", "segments", "departure", "arrival", "carrierCode", "number",
     "duration", "price", "total", "base", "currency", "validatingAirlineCodes",
     "validatingAirlineCodes[0]", "id"}

\* the offer dict of the docstring with one required field absent
RawMissing(field) ==
    LET seg == RawDirect.itineraries[1].segments[1]
    IN  CASE field \in {"itineraries", "price", "validatingAirlineCodes", "id"} ->
               Without(RawDirect, field)
          [] field = "segments" ->
               [RawDirect EXCEPT !.itineraries = << [carrier |-> "AA"] >>]
          [] field \in {"departure", "arrival", "carrierCode", "number", "duration"} ->
               [RawDirect EXCEPT !.itineraries = << [segments |-> << Without(seg, field) >>] >>]
          [] field \in {"total", "base", "currency"} ->
               [RawDirect EXCEPT !.price = Without(RawDirect.price, field)]
          [] field = "validatingAirlineCodes[0]" ->
               [RawDirect EXCEPT !.validatingAirlineCodes = << >>]

MapperInit ==
    /\ CycleInit
    /\ NotRunning
    /\ \/ \E w \in Wrappings, g \in GroupLists :
            call = [fn |-> "parse_iso8601_duration", duration_str |-> DurationText(w, g),
                    wrapping |-> w, groups |-> g]
       \/ \E rp \in { q \in RawPrices : ~q.has_fees => q.fees = << >> } :
            call = [fn |-> "amadeus_to_flight_offer", amadeus_data |-> RawPriced(rp),
                    price |-> rp, missing |-> "none"]
       \/ \E field \in RequiredFields :
            call = [fn |-> "amadeus_to_flight_offer", amadeus_data |-> RawMissing(field),
                    missing |-> field]
    /\ frame = [pc |-> "called"]

\* parse_iso8601_duration(duration_str): the timedelta, in seconds, or the
\* ValueError
ParseDuration ==
    /\ call.fn = "parse_iso8601_duration"
    /\ frame.pc = "called"
    /\ LET r == parse_iso8601_duration(call.duration_str)
       IN  frame' = IF r.raised # "none"
                    THEN [pc |-> "raised", raised |-> r.raised]
                    ELSE [pc |-> "returned", value |-> r.value]
    /\ UNCHANGED << cycle, call, sched >>

\* amadeus_to_flight_offer(amadeus_data): the FlightOffer, or the exception
MapOffer ==
    /\ call.fn = "amadeus_to_flight_offer"
    /\ frame.pc = "called"
    /\ LET r == amadeus_to_flight_offer(call.amadeus_data)
       IN  frame' = IF r.raised # "none"
                    THEN [pc |-> "raised", raised |-> r.raised]
                    ELSE [pc |-> "returned", offer |-> r.offer]
    /\ UNCHANGED << cycle, call, sched >>

MapperNext == ParseDuration \/ MapOffer

MapperSpec == MapperInit /\ [][MapperNext]_vars

\* ---------------------------------------- search_flights, called directly
\* the calls the orchestrator makes: the arguments of one route of a user's
\* preferences, and what the SDK does
SearchInit ==
    /\ CycleInit
    /\ NotRunning
    /\ \E p \in UserPreferences, sdk \in SdkOutcomes :
         \E i \in 1..Len(p.routes) :
            call = [fn |-> "search_flights", args |-> SearchArgs(p.routes[i], p), sdk |-> sdk]
    /\ frame = [pc |-> "called"]

\* search_flights(**args): the parameters it hands to the SDK and the
\* flights it returns, or the exception that leaves it
SearchFlights ==
    /\ call.fn = "search_flights"
    /\ frame.pc = "called"
    /\ LET r == search_flights(call.sdk)
           a == call.args
       IN  frame' = IF r.raised # "none"
                    THEN [pc |-> "raised", raised |-> r.raised]
                    ELSE [pc |-> "returned",
                          params |-> SearchParams(a.origin, a.destination, a.departure_date,
                                                  a.adults, a.return_date, a.cabin_class),
                          flights |-> r.flights]
    /\ UNCHANGED << cycle, call, sched >>

SearchNext == SearchFlights

SearchSpec == SearchInit /\ [][SearchNext]_vars

\* ------------------------------------------------- the scheduler loop
\* main.py:25-56: run() has built its components, installed handle_shutdown
\* for SIGTERM and SIGINT and stands before the while test of line 58
RunInit ==
    /\ CycleInit
    /\ call = NoCall
    /\ frame = NoFrame
    /\ shutdown_event = FALSE
    /\ run_pc = "test"
    /\ finished = << >>

\* orchestrator.py:84-89: run_check_cycle is entered: its counters are
\* zero, its loops not begun (CycleInit, of the next state)
EnterCycle ==
    /\ pc' = "start"
    /\ chat_ids' = << >> /\ user_idx' = 0
    /\ prefs' = NoPrefs /\ route_idx' = 0
    /\ flights' = << >> /\ flight_idx' = 0
    /\ users_checked' = 0 /\ routes_searched' = 0 /\ flights_found' = 0
    /\ deals_matched' = 0 /\ notifications_sent' = 0 /\ errors' = 0
    /\ result' = NoResult
    /\ raised' = "none"
    /\ calls' = << >>

\* StartCycle without the test of the event
StartCycleAnyway ==
    /\ run_pc = "test"
    /\ Len(finished) < MaxCycles
    /\ EnterCycle
    /\ run_pc' = "cycle"
    /\ UNCHANGED << call, frame, shutdown_event, finished >>

\* lines 58-60: the event is not set, so run_check_cycle is called and
\* entered
StartCycle ==
    /\ run_pc = "test"
    /\ ~shutdown_event
    /\ Len(finished) < MaxCycles
    /\ EnterCycle
    /\ run_pc' = "cycle"
    /\ UNCHANGED << call, frame, shutdown_event, finished >>

\* lines 58 and 70: the event is set, the loop and run() end
ExitLoop ==
    /\ run_pc = "test"
    /\ shutdown_event
    /\ run_pc' = "exited"
    /\ UNCHANGED << cycle, call, frame, shutdown_event, finished >>

\* line 60: the steps of the awaited cycle.  Under run() the environment is
\* kept to the first user, the first route and the first offer.
RunListUsers == run_pc = "cycle" /\ ListUsers /\ Len(chat_ids') <= 1

RunLoadPreferences == run_pc = "cycle" /\ LoadPreferences /\ Len(prefs'.routes) <= 1

RunSearchRoute == run_pc = "cycle" /\ SearchRoute /\ Len(flights') <= 1

RunProcessFlight == run_pc = "cycle" /\ ProcessFlight

\* what the history keeps of a cycle that has ended
FinishedCycle ==
    [raised |-> raised, result |-> result, calls |-> calls, signalled |-> shutdown_event]

\* CycleEnds with the wait skipped
CycleEndsSkipsWait ==
    /\ run_pc = "cycle"
    /\ pc \in {"done", "raised"}
    /\ finished' = Append(finished, FinishedCycle)
    /\ run_pc' = "test"
    /\ UNCHANGED << cycle, call, frame, shutdown_event >>

\* CycleEnds without the except clause of line 62
CycleEndsUncaught ==
    /\ run_pc = "cycle"
    /\ pc \in {"done", "raised"}
    /\ finished' = Append(finished, FinishedCycle)
    /\ run_pc' = IF pc = "raised" THEN "exited" ELSE "wait"
    /\ UNCHANGED << cycle, call, frame, shutdown_event >>

\* lines 60-65: the cycle has returned (line 61 logs the result) or raised
\* (line 62 catches every Exception and logs it); run() goes on to wait
CycleEnds ==
    /\ run_pc = "cycle"
    /\ pc \in {"done", "raised"}
    /\ finished' = Append(finished, FinishedCycle)
    /\ run_pc' = "wait"
    /\ UNCHANGED << cycle, call, frame, shutdown_event >>

\* lines 65-68: wait_for returns because the event is set, or raises the
\* TimeoutError of the elapsed interval, which line 67 catches
WaitEnds ==
    /\ run_pc = "wait"
    /\ run_pc' = "test"
    /\ UNCHANGED << cycle, call, frame, shutdown_event, finished >>

\* lines 46-51: a SIGTERM or SIGINT has arrived; the event loop runs the
\* handler while run() is suspended in an await, i.e. inside a collaborator
\* call of the cycle or inside the wait
handle_shutdown ==
    /\ \/ run_pc = "wait"
       \/ run_pc = "cycle" /\ pc \notin {"done", "raised"}
    /\ ~shutdown_event
    /\ shutdown_event' = TRUE
    /\ UNCHANGED << cycle, call, frame, run_pc, finished >>

\* what run() itself does
RunSteps ==
    \/ StartCycle
    \/ ExitLoop
    \/ RunListUsers
    \/ RunLoadPreferences
    \/ RunSearchRoute
    \/ RunProcessFlight
    \/ CycleEnds
    \/ WaitEnds

RunNext == RunSteps \/ handle_shutdown

RunSpec == RunInit /\ [][RunNext]_vars

\* the event loop resumes run() whenever it can go on: every collaborator
\* call returns or raises, and the interval elapses
RunFairSpec == RunSpec /\ WF_vars(RunSteps)

\* ------------------------------------------------- claims on the cycle
\* the call history
Calls(op, outcome) ==
    { i \in 1..Len(calls) : calls[i].op = op /\ calls[i].outcome = outcome }

\* the call this step appended to the history, if it appended one
Called(op) ==
    /\ Len(calls') = Len(calls) + 1
    /\ calls'[Len(calls')].op = op

LastCall == calls'[Len(calls')]

\* the preferences the cycle loaded for the user a search call belongs to
PrefsOfCall(i) ==
    LET j == CHOOSE k \in 1..Len(calls) :
                 calls[k].op = "load" /\ calls[k].user = calls[i].user
    IN  calls[j].returned

\* the position the cycle continues at after the current route
ContinuesAfterRoute ==
    IF route_idx < Len(prefs.routes)
    THEN pc' = "search" /\ route_idx' = route_idx + 1 /\ user_idx' = user_idx
    ELSE IF user_idx < Len(chat_ids)
    THEN pc' = "load" /\ user_idx' = user_idx + 1
    ELSE pc' = "done"

\* an offer that passes the currency, price, stops and duration rules, the
\* duration rule passing when the preferences carry no max_duration
PassesAllRules(flight, p) ==
    /\ flight.price.currency = p.currency
    /\ flight.price.total <= p.max_price
    /\ \/ p.stop_preference = "any"
       \/ p.stop_preference = "direct_only" /\ total_stops(flight) = 0
       \/ p.stop_preference = "max_one_stop" /\ total_stops(flight) <= 1
    /\ \/ "max_duration" \notin DOMAIN p
       \/ p.max_duration = None
       \/ total_duration(flight) <= p.max_duration

\* ----------------------------------------------------------------- claims

\* C1: run_check_cycle is total: whatever list_users, load, the search, the
\* rule evaluator and the notifier do, no exception propagates to the caller.
C1_NoExceptionPropagates == pc # "raised" /\ raised = "none"

\* C2: a load that fails with a PreferencesError adds exactly 1 to errors,
\* leaves users_checked and the other counters alone and goes on to load the
\* next user (or ends the cycle); no search or notification call is ever made
\* for that user.
C2_LoadFailureSkipsUser ==
    /\ [][ (Called("load") /\ LastCall.outcome = "PreferencesError") =>
             /\ errors' = errors + 1
             /\ users_checked' = users_checked
             /\ UNCHANGED << routes_searched, flights_found, deals_matched,
                             notifications_sent >>
             /\ IF user_idx < Len(chat_ids)
                THEN pc' = "load" /\ user_idx' = user_idx + 1
                ELSE pc' = "done" ]_vars
    /\ [](\A i \in Calls("load", "PreferencesError") :
            \A j \in 1..Len(calls) :
               calls[j].op \in {"search_flights", "send_flight_deal"}
                  => calls[j].user # calls[i].user)

\* C2 witness: a failed load followed by the load of the next user
C2_Witness ==
    \E i \in Calls("load", "PreferencesError") :
       /\ i < Len(calls)
       /\ calls[i + 1].op = "load"
       /\ calls[i + 1].user = calls[i].user + 1
       /\ errors >= 1

\* C3: a search that fails with an AmadeusError adds exactly 1 to errors,
\* counts the route in routes_searched, adds nothing to flights_found, and the
\* cycle continues with the next route of the user, else the next user; no
\* route of a user is searched twice in a cycle.
C3_SearchFailureContinues ==
    /\ [][ (Called("search_flights") /\ LastCall.outcome = "AmadeusError") =>
             /\ errors' = errors + 1
             /\ routes_searched' = routes_searched + 1
             /\ flights_found' = flights_found
             /\ UNCHANGED << users_checked, deals_matched, notifications_sent >>
             /\ ContinuesAfterRoute ]_vars
    /\ [](\A i, j \in 1..Len(calls) :
            (/\ calls[i].op = "search_flights" /\ calls[j].op = "search_flights"
             /\ calls[i].user = calls[j].user /\ calls[i].route = calls[j].route)
              => i = j)

\* C3 witness: a failed search followed by the search of the user's next
\* route, in a cycle that went on to a following user
C3_Witness ==
    \E i \in Calls("search_flights", "AmadeusError") :
       /\ i + 1 < Len(calls)
       /\ calls[i + 1].op = "search_flights"
       /\ calls[i + 1].user = calls[i].user
       /\ calls[i + 1].route = calls[i].route + 1
       /\ calls[i + 2].op = "load"

\* C4: a matching offer is counted in deals_matched and gets exactly one
\* delivery attempt; when the attempt fails notifications_sent stays, errors
\* goes up by 1 and the cycle goes on with the remaining offers.
C4_DeliveryFailureCounted ==
    [][ (pc = "offer" /\ PassesAllRules(flights[flight_idx], prefs)) =>
          /\ deals_matched' = deals_matched + 1
          /\ Called("send_flight_deal")
          /\ \/ notifications_sent' = notifications_sent + 1 /\ errors' = errors
             \/ notifications_sent' = notifications_sent /\ errors' = errors + 1
          /\ pc' # "raised" ]_vars

\* C5: a raw offer the mapper rejects costs one error and is skipped; the
\* other offers of the same response are still counted and the cycle goes on.
C5_MappingFailureContained ==
    [][ (Called("search_flights") /\ LastCall.rejected > 0) =>
          /\ pc' # "raised"
          /\ errors' = errors + LastCall.rejected
          /\ Len(flights') = LastCall.offered - LastCall.rejected ]_vars

\* the failures of a cycle, from its call history
FailedLoads == Cardinality(Calls("load", "PreferencesError"))
FailedSearches == Cardinality(Calls("search_flights", "AmadeusError"))
FailedDeliveries == Cardinality(Calls("send_flight_deal", "TelegramError"))
FailedNormalizations ==
    SumSeq([i \in 1..Len(calls) |->
              IF calls[i].op = "search_flights"
              THEN calls[i].rejected ELSE 0])

C7_NoUsersAllZero ==
    (calls # << >> /\ calls[1].outcome = "returned" /\ calls[1].returned = << >>) =>
       /\ pc = "done"
       /\ result = CheckResult(0, 0, 0, 0, 0, 0)
       /\ Len(calls) = 1

\* C7 witness: the cycle has returned after list_users returned the empty list
C7_Witness ==
    /\ pc = "done"
    /\ Len(calls) = 1
    /\ calls[1].op = "list_users"
    /\ calls[1].returned = << >>

\* C8: processing an offer sends a notification, addressed to the user whose
\* preferences are being checked, if and only if the offer passes all four
\* rules; deals_matched is the number of send_flight_deal calls.
C8_NotifyIffMatch ==
    /\ [][ pc = "offer" =>
             ( PassesAllRules(flights[flight_idx], prefs)
                 <=> (/\ Called("send_flight_deal")
                      /\ LastCall.chat_id = chat_ids[user_idx]
                      /\ deals_matched' = deals_matched + 1) ) ]_vars
    /\ [](deals_matched = Cardinality({ i \in 1..Len(calls) :
                                          calls[i].op = "send_flight_deal" }))

\* the offers returned by the searches that succeeded
OffersReturned ==
    SumSeq([i \in 1..Len(calls) |->
              IF calls[i].op = "search_flights" /\ calls[i].outcome = "returned"
              THEN calls[i].offered ELSE 0])

C10_SearchArguments ==
    \A i \in 1..Len(calls) :
       calls[i].op = "search_flights" =>
          LET p == PrefsOfCall(i)
              a == calls[i].args
              sdk == calls[i].params
          IN  /\ a.origin = p.routes[calls[i].route].origin
              /\ a.destination = p.routes[calls[i].route].destination
              /\ a.departure_date = p.date_range.earliest
              /\ a.adults = p.passengers
              /\ a.cabin_class = p.cabin_class
              /\ a.return_date =
                   (IF p.trip_type = "round_trip" THEN p.date_range.latest ELSE None)
              /\ sdk.originLocationCode = a.origin
              /\ sdk.destinationLocationCode = a.destination
              /\ sdk.departureDate = isoformat(p.date_range.earliest)
              /\ sdk.adults = p.passengers
              /\ "returnDate" \in DOMAIN sdk <=> p.trip_type = "round_trip"
              /\ "returnDate" \in DOMAIN sdk =>
                    sdk.returnDate = isoformat(p.date_range.latest)

\* C10 witness: a cycle that searched for a one-way user without a return
\* date and for a round-trip user with one
C10_Witness ==
    \E i, j \in 1..Len(calls) :
       /\ calls[i].op = "search_flights" /\ calls[j].op = "search_flights"
       /\ PrefsOfCall(i).trip_type = "one_way" /\ calls[i].args.return_date = None
       /\ PrefsOfCall(j).trip_type = "round_trip" /\ calls[j].args.return_date = 31

\* ------------------------------------------------- claims on the rules
\* the call of evaluate_flight has ended, by a return or by an exception
Evaluated == call.fn = "evaluate_flight" /\ frame.pc \in {"returned", "raised"}

\* C11: for valid preferences and any offer evaluate_flight returns a
\* MatchResult whose passed_reasons and failed_reasons hold four reasons in
\* all, one per rule.
C11_FourReasons ==
    Evaluated =>
       /\ frame.pc = "returned"
       /\ Len(frame.result.passed_reasons) + Len(frame.result.failed_reasons) = 4

\* C12: a MatchResult returned by evaluate_flight has is_match true iff its
\* failed_reasons is empty, and the evaluation of an offer yields is_match
\* true iff the offer passes the currency, price, stops and duration rules.
C12_MatchIffAllPass ==
    Evaluated =>
       /\ frame.pc = "returned" =>
             (frame.result.is_match <=> frame.result.failed_reasons = << >>)
       /\ PassesAllRules(call.flight, call.prefs)
             <=> (frame.pc = "returned" /\ frame.result.is_match)

\* the reasons of the rules with the given verdict, in rule order
ReasonsInOrder(verdict) ==
    LET all == [i \in 1..Len(rules) |-> ApplyRule(rules[i], call.flight, call.prefs)]
        sel == SelectSeq(all, LAMBDA r : r.passed = verdict)
    IN  [i \in 1..Len(sel) |-> sel[i].reason]

\* C13: evaluate_flight calls the rules in the order currency, price, stops,
\* duration and goes on to the next rule whatever the verdict of the last
\* one; it ends having called all four, and passed_reasons and
\* failed_reasons each list their reasons in rule order.
C13_NoShortCircuit ==
    /\ [][ (call.fn = "evaluate_flight" /\ frame.pc = "loop") =>
             /\ frame'.invoked = Append(frame.invoked, rules[Len(frame.invoked) + 1])
             /\ Len(frame.invoked) + 1 < Len(rules) => frame'.pc = "loop" ]_vars
    /\ [](Evaluated =>
             /\ frame.pc = "returned"
             /\ frame.invoked = rules
             /\ frame.result.passed_reasons = ReasonsInOrder(TRUE)
             /\ frame.result.failed_reasons = ReasonsInOrder(FALSE))

\* C14: check_price passes iff price.total <= max_price; a total equal to
\* max_price passes and a total one unit (or one hundredth) above it fails.
C14_PriceRule ==
    (call.fn = "check_price" /\ frame.pc # "called") =>
       /\ frame.pc = "returned"
       /\ frame.passed <=> call.flight.price.total <= call.prefs.max_price
       /\ call.flight.price.total = call.prefs.max_price => frame.passed
       /\ call.flight.price.total = call.prefs.max_price + 100 => ~frame.passed
       /\ call.flight.price.total = call.prefs.max_price + 1 => ~frame.passed

\* C14 witness: check_price has passed an offer priced exactly at max_price
C14_Witness ==
    /\ call.fn = "check_price"
    /\ frame.pc = "returned"
    /\ call.flight.price.total = call.prefs.max_price
    /\ frame.passed

\* C15: check_stops returns a verdict for every stop preference: ANY passes,
\* DIRECT_ONLY passes iff total_stops = 0, MAX_ONE_STOP passes iff
\* total_stops <= 1.
C15_StopsRule ==
    (call.fn = "check_stops" /\ frame.pc # "called") =>
       /\ frame.pc = "returned"
       /\ frame.passed \in BOOLEAN
       /\ call.prefs.stop_preference = "any" => frame.passed
       /\ call.prefs.stop_preference = "direct_only" =>
             (frame.passed <=> total_stops(call.flight) = 0)
       /\ call.prefs.stop_preference = "max_one_stop" =>
             (frame.passed <=> total_stops(call.flight) <= 1)

\* C15 witness: check_stops has passed a one-stop offer under MAX_ONE_STOP
C15_Witness ==
    /\ call.fn = "check_stops"
    /\ frame.pc = "returned"
    /\ call.prefs.stop_preference = "max_one_stop"
    /\ total_stops(call.flight) = 1
    /\ frame.passed

\* C16: check_duration passes every offer when the preferences carry no
\* max_duration, and otherwise passes iff total_duration <= max_duration.
C16_DurationRule ==
    (call.fn = "check_duration" /\ frame.pc # "called") =>
       /\ frame.pc = "returned"
       /\ frame.passed <=>
             \/ "max_duration" \notin DOMAIN call.prefs
             \/ call.prefs.max_duration = None
             \/ total_duration(call.flight) <= call.prefs.max_duration

\* the stops of an offer, counted from its segments: every segment after
\* the first of its itinerary is one stop
StopsOverall(flight) ==
    Cardinality({ << i, k >> \in (1..Len(flight.itineraries)) \X (2..MaxSegments + 1) :
                    k <= Len(flight.itineraries[i].segments) })

\* C30: the stops rule counts the stops of the whole offer: total_stops is
\* the sum over the itineraries of (segments - 1), so a round trip with a
\* stop out and a stop back has two stops and fails MAX_ONE_STOP, and a
\* round trip with a stop in either direction fails DIRECT_ONLY.
C30_StopsOverWholeOffer ==
    (call.fn = "check_stops" /\ frame.pc # "called") =>
       LET its == call.flight.itineraries
           sp == call.prefs.stop_preference
       IN  /\ frame.pc = "returned"
           /\ total_stops(call.flight) = StopsOverall(call.flight)
           /\ sp = "max_one_stop" => (frame.passed <=> StopsOverall(call.flight) <= 1)
           /\ sp = "direct_only" => (frame.passed <=> StopsOverall(call.flight) = 0)
           /\ (sp = "max_one_stop" /\ Len(its) = 2
                 /\ \A i \in 1..2 : Len(its[i].segments) = 2) => ~frame.passed
           /\ (sp = "direct_only" /\ Len(its) = 2
                 /\ \E i \in 1..2 : Len(its[i].segments) > 1) => ~frame.passed

\* C30 witness: check_stops has failed, under MAX_ONE_STOP, a round trip
\* with one stop out and one stop back
C30_Witness ==
    /\ call.fn = "check_stops"
    /\ frame.pc = "returned"
    /\ call.prefs.stop_preference = "max_one_stop"
    /\ Len(call.flight.itineraries) = 2
    /\ \A i \in 1..2 : Len(call.flight.itineraries[i].segments) = 2
    /\ ~frame.passed

\* ------------------------------------------------ claims on the mapper
\* the position of a unit letter in H, M, S
UnitRank(unit) == CHOOSE i \in 1..Len(Units) : Units[i] = unit

\* the number a string of digits writes
RECURSIVE NumberOf(_)
NumberOf(digits) ==
    IF digits = << >> THEN 0
    ELSE NumberOf(SubSeq(digits, 1, Len(digits) - 1)) * 10
           + DigitValue(digits[Len(digits)])

\* a text of the form PT[nH][nM][nS]: the plain prefix, nothing after the
\* groups, every group a number and its unit, the units in the order H, M, S
\* and none of them twice
OfTheForm(wrapping, groups) ==
    /\ wrapping = PlainPT
    /\ \A i \in 1..Len(groups) : groups[i].body \in Numbers
    /\ \A i, j \in 1..Len(groups) :
          i < j => UnitRank(groups[i].unit) < UnitRank(groups[j].unit)

\* n_H hours + n_M minutes + n_S seconds, in seconds
SecondsOf(groups) ==
    SumSeq([i \in 1..Len(groups) |->
              NumberOf(groups[i].body)
                * (IF groups[i].unit = "H" THEN 3600
                   ELSE IF groups[i].unit = "M" THEN 60 ELSE 1)])

Parsed == call.fn = "parse_iso8601_duration" /\ frame.pc # "called"

\* C18: parse_iso8601_duration accepts every text of the form
\* PT[nH][nM][nS], the bare "PT" included, and returns n_H hours + n_M
\* minutes + n_S seconds, a missing group counting as zero.
C18_ParsesTheForm ==
    (Parsed /\ OfTheForm(call.wrapping, call.groups)) =>
       /\ frame.pc = "returned"
       /\ frame.value = SecondsOf(call.groups)

\* C18 witness: the parser has returned 77 minutes and 7 seconds for a text
\* without an hours group
C18_Witness ==
    /\ Parsed
    /\ call.duration_str = << "P", "T", "7", "7", "M", "0", "7", "S" >>
    /\ frame.pc = "returned"
    /\ frame.value = 77 * 60 + 7

\* C19: parse_iso8601_duration raises its format error, and returns no
\* duration, for every text that lacks the PT prefix, has a non-numeric or
\* fractional group, lists the groups out of order or carries extra text
\* before or after the pattern.
C19_RejectsTheRest ==
    (Parsed /\ ~OfTheForm(call.wrapping, call.groups)) =>
       /\ frame.pc = "raised"
       /\ frame.raised = "ValueError"

\* C20: amadeus_to_flight_offer sets price.fees to the exact sum of the
\* amounts of the raw fee lines, zero when the list is empty or absent, and
\* price.total and price.base to the raw values.
C20_FeesAreSummed ==
    (call.fn = "amadeus_to_flight_offer" /\ call.missing = "none" /\ frame.pc # "called") =>
       /\ frame.pc = "returned"
       /\ frame.offer.price.fees =
            SumSeq([i \in 1..Len(call.price.fees) |-> call.price.fees[i].hundredths])
       /\ call.price.fees = << >> => frame.offer.price.fees = 0
       /\ frame.offer.price.total = call.price.total.hundredths
       /\ frame.offer.price.base = call.price.base.hundredths

\* C20 witness: the mapper has returned fees of 49.99 for the fee lines
\* 30.00 and 19.99
C20_Witness ==
    /\ call.fn = "amadeus_to_flight_offer"
    /\ call.missing = "none"
    /\ frame.pc = "returned"
    /\ Len(call.price.fees) = 2
    /\ call.price.fees[1].hundredths = 3000
    /\ call.price.fees[2].hundredths = 1999
    /\ frame.offer.price.fees = 4999

\* the mapper has been called on an offer dict that lacks a required field
MappedMalformed ==
    /\ call.fn = "amadeus_to_flight_offer"
    /\ call.missing # "none"
    /\ frame.pc # "called"

\* C21: when a required field of the raw offer is absent (itineraries,
\* segments, a segment's departure, arrival, carrier, number or duration,
\* the price's total, base or currency, or the first validating airline),
\* amadeus_to_flight_offer raises the one kind MappingError and returns no
\* offer.
C21_RaisesMappingError ==
    MappedMalformed =>
       /\ frame.pc = "raised"
       /\ frame.raised = "MappingError"

\* ------------------------------------------------- claims on the client
\* C22: a search fails only with one of the four provider errors:
\* AmadeusAuthError for status 401 or 403, AmadeusRateLimitError for status
\* 429, AmadeusNetworkError for a network failure, AmadeusApiError for any
\* other error status; no other kind of exception leaves search_flights.
C22_OnlyProviderErrors ==
    (call.fn = "search_flights" /\ frame.pc = "raised") =>
       LET sdk == call.sdk
           failed == sdk.kind = "ResponseError"
       IN  /\ frame.raised \in AmadeusError
           /\ frame.raised = "AmadeusAuthError" <=> (failed /\ sdk.status \in {401, 403})
           /\ frame.raised = "AmadeusRateLimitError" <=> (failed /\ sdk.status = 429)
           /\ frame.raised = "AmadeusNetworkError" <=> sdk.kind = "NetworkError"
           /\ frame.raised = "AmadeusApiError" <=> (failed /\ sdk.status \notin {401, 403, 429})

\* --------------------------------------- claims on the order of calls
\* the calls made for a user: all but list_users
UserCalls == { i \in 1..Len(calls) : calls[i].op # "list_users" }

\* the calls of one operation, and how many of them precede and include i
CallsOf(op) == { i \in 1..Len(calls) : calls[i].op = op }

RankAmong(S, i) == Cardinality({ j \in S : j <= i })

Ordered(uc, rs, ff, dm, ns, er) ==
    /\ uc >= 0 /\ rs >= 0 /\ ff >= 0 /\ dm >= 0 /\ ns >= 0 /\ er >= 0
    /\ ns <= dm
    /\ dm <= ff

Listed == IF calls = << >> THEN << >> ELSE calls[1].returned

\* the routes of the users whose load succeeded
RoutesLoaded ==
    SumSeq([i \in 1..Len(calls) |->
              IF calls[i].op = "load" /\ calls[i].outcome = "returned"
              THEN Len(calls[i].returned.routes) ELSE 0])

\* the load calls made for the u-th chat id of the list
LoadsOf(u) ==
    { i \in CallsOf("load") : calls[i].user = u /\ calls[i].chat_id = Listed[u] }

LoopOrder ==
    { << "test", "cycle" >>, << "cycle", "wait" >>, << "wait", "test" >>,
      << "test", "exited" >> }

\* C23: run() starts a cycle at once at startup and from then on strictly
\* alternates one cycle run to completion with one wait: a cycle starts only
\* from the loop test, the test is reached only from the wait, the wait
\* only from a cycle that has returned or raised, and so no cycle starts
\* while another is running.
C23_StrictAlternation ==
    /\ [][ run_pc' # run_pc => << run_pc, run_pc' >> \in LoopOrder ]_vars
    /\ [][ (run_pc = "cycle" /\ run_pc' # "cycle") => pc \in {"done", "raised"} ]_vars
    /\ [][ (run_pc = "test" /\ finished = << >>) => run_pc' \in {"test", "cycle"} ]_vars
    /\ [][ (run_pc = "cycle" /\ pc' = "start") => pc = "start" ]_vars

\* C23 witness: the second cycle is running, after the first cycle and the
\* wait have ended
C23_Witness ==
    /\ run_pc = "cycle"
    /\ pc = "search"
    /\ Len(finished) = 1

\* C24: a shutdown signal does not interrupt a running cycle, which goes on
\* to its end and hands its result to run(); once the event is set it stays
\* set, no new cycle is started, the wait can only end, and run()
\* eventually terminates.
C24_ShutdownBetweenCycles ==
    /\ [][ (~shutdown_event /\ shutdown_event') =>
             (UNCHANGED cycle /\ run_pc' = run_pc) ]_vars
    /\ [][ (shutdown_event /\ run_pc = "cycle" /\ run_pc' # "cycle") =>
             /\ pc \in {"done", "raised"}
             /\ run_pc' = "wait"
             /\ finished' = Append(finished, [FinishedCycle EXCEPT !.signalled = TRUE]) ]_vars
    /\ [][ shutdown_event =>
             /\ shutdown_event'
             /\ run_pc # "cycle" => run_pc' # "cycle" ]_vars
    /\ [][ (shutdown_event /\ run_pc = "wait") => run_pc' \in {"wait", "test"} ]_vars
    /\ shutdown_event ~> (run_pc = "exited")

\* C24 witness: run() has ended after a signal that arrived during a cycle;
\* that cycle went on to return its CheckResult and no cycle followed it
C24_Witness ==
    /\ run_pc = "exited"
    /\ Len(finished) = 1
    /\ finished[1].signalled
    /\ finished[1].result # NoResult
    /\ Len(finished[1].calls) >= 3

\* C25: no state carries over from one cycle to the next: every cycle starts
\* with its six counters at zero, the CheckResult of a cycle depends only on
\* the collaborator outcomes of that cycle, and an offer that matches in a
\* later cycle is notified again, whatever the earlier cycles did.
C25_NoStateCarriesOver ==
    /\ [][ (run_pc = "test" /\ run_pc' = "cycle") =>
             /\ users_checked' = 0 /\ routes_searched' = 0 /\ flights_found' = 0
             /\ deals_matched' = 0 /\ notifications_sent' = 0 /\ errors' = 0 ]_vars
    /\ [](\A i, j \in 1..Len(finished) :
            finished[i].calls = finished[j].calls =>
               finished[i].result = finished[j].result)
    /\ [][ (/\ run_pc = "cycle"
            /\ finished # << >>
            /\ pc = "offer"
            /\ PassesAllRules(flights[flight_idx], prefs)) =>
               Called("send_flight_deal") ]_vars

\* C29: a cycle that raises does not end the loop: run() goes on to the
\* wait, run() ends only after a shutdown signal, and unless the event is
\* set the next cycle starts.
C29_FailedCycleDoesNotStopLoop ==
    /\ [][ (run_pc = "cycle" /\ pc = "raised" /\ run_pc' # run_pc) => run_pc' = "wait" ]_vars
    /\ [](run_pc = "exited" => shutdown_event)
    /\ \A n \in 0..(MaxCycles - 2) :
         (run_pc = "cycle" /\ pc = "raised" /\ Len(finished) = n)
            ~> (shutdown_event \/ (run_pc = "cycle" /\ Len(finished) = n + 1))

\* C29 witness: the second cycle has returned its result after the first
\* cycle raised
C29_Witness ==
    /\ run_pc = "cycle"
    /\ pc = "done"
    /\ Len(finished) = 1
    /\ finished[1].raised # "none"
    /\ ~shutdown_event

====
